---- MODULE Spec2Model ----
(***************************************************************************)
(* Model of the montrealfirepredicition pipelines: the data_processing     *)
(* nodes (combine / preprocess) followed by the feature_engineering nodes  *)
(* (mesh, spatial joins, merges, create_input_table), run one node at a    *)
(* time in the order the two pipeline.py files register them.              *)
(*                                                                         *)
(* A DataFrame is a record [columns |-> set of names, rows |-> sequence    *)
(* of records over these names].  A cell is a number, a string, a text     *)
(* (the characters of a raw CSV value) or a rectangle <<x0, y0, x1, y1>>;  *)
(* every column has one type and its own null.                             *)
(* Coordinates are small naturals; LONGITUDE is x and LATITUDE is y.       *)
(***************************************************************************)
EXTENDS Integers, Sequences, FiniteSets, TLC

VARIABLES
    pc,                 \* the node that runs next, "done", or "raised"
    raised_in,          \* the node whose exception ended the run, or "none"
    current_year,       \* datetime.now().year of the run
    square_size,        \* params:square_size
    partitioned_input,  \* incidents: <<partition key, DataFrame>> in dict order
    firestations,       \* raw catalog entries
    firestation_areas,
    property_assessments,
    census,
    combined_incidents,
    preprocessed_incidents,
    preprocessed_firestations,
    preprocessed_firestation_areas,
    preprocessed_property_assessments,
    preprocessed_census,
    square_mesh,
    spatial_joined_incidents,
    spatial_joined_property_assessments,
    spatial_joined_census,
    merged_incidents_property_assessments,
    merged_incidents_property_assessments_census,
    input_table

vars == <<pc, raised_in, current_year, square_size, partitioned_input,
          firestations, firestation_areas, property_assessments, census,
          combined_incidents, preprocessed_incidents,
          preprocessed_firestations, preprocessed_firestation_areas,
          preprocessed_property_assessments, preprocessed_census, square_mesh,
          spatial_joined_incidents, spatial_joined_property_assessments,
          spatial_joined_census, merged_incidents_property_assessments,
          merged_incidents_property_assessments_census, input_table>>

---------------------------------------------------------------------------
(* Nulls.  np.nan in a numeric column, None/NaN in a string column, an     *)
(* empty cell in a raw text column, no geometry.                           *)

NaN == -1
NA == "<NA>"
NoText == << >>

GeometryCols == {"geometry"}

StringCols == {"DESCRIPTION_GROUPE", "INCIDENT_CATEGORY", "INCIDENT_TYPE_DESC",
               "INCIDENT_TYPE", "NOM_VILLE", "NOM_ARROND", "DIVISION",
               "time_of_day", "RUE", "STREET_NAME", "ARRONDISSEMENT",
               "NEIGHBORHOOD", "VILLE", "CITY", "AREA", "NOM_CAS_AD",
               "DGUID", "CATEGORIE_UEF", "USE_CATEGORY", "LIBELLE_UTILISATION",
               "USE_DESCRIPTION", "MUNICIPALITE", "NOM_RUE", "SUITE_DEBUT",
               "LETTRE_DEBUT", "LETTRE_FIN", "MATRICULE83", "NO_ARROND_ILE_CUM"}

TextCols == {"CREATION_DATE_TIME", "CREATION_DATE", "CREATION_TIME",
             "NOMBRE_UNITES", "DATE_DEBUT", "DATE_FIN", "START_DATE",
             "END_DATE", "ETAGE_HORS_SOL", "NOMBRE_LOGEMENT",
             "ANNEE_CONSTRUCTION", "CODE_UTILISATION", "SUPERFICIE_TERRAIN",
             "SUPERFICIE_BATIMENT"}

\* The null of column c: what concat and a left merge fill in.
NullOf(c) ==
    IF c \in StringCols THEN NA
    ELSE IF c \in TextCols THEN NoText
    ELSE IF c \in GeometryCols THEN << >>
    ELSE NaN

\* Series.isna(), one cell.
IsNull(c, v) == v = NullOf(c)

---------------------------------------------------------------------------
(* DataFrames *)

DataFrame(cols, rws) == [columns |-> cols, rows |-> rws]

EmptyFrame == DataFrame({}, << >>)

\* x[mask]: the rows whose mask entry is true, in order.
Filter(x, mask) ==
    LET idx == SelectSeq([i \in 1..Len(x.rows) |-> i], LAMBDA i : mask[i])
    IN DataFrame(x.columns, [k \in 1..Len(idx) |-> x.rows[idx[k]]])

\* x[column], a Series: one value per row.
Col(x, column) == [i \in 1..Len(x.rows) |-> x.rows[i][column]]

\* A row widened to the columns cols, absent cells null.
Align(row, cols) ==
    [c \in cols |-> IF c \in DOMAIN row THEN row[c] ELSE NullOf(c)]

\* pd.concat([a, b], ignore_index=True): union of the columns, a's rows then b's.
Concat(a, b) ==
    LET cols == a.columns \cup b.columns
    IN DataFrame(cols,
                 [i \in 1..Len(a.rows) |-> Align(a.rows[i], cols)]
                 \o [i \in 1..Len(b.rows) |-> Align(b.rows[i], cols)])

\* x[column] = values (a new or an overwritten column).
Assign(x, column, values) ==
    DataFrame(x.columns \cup {column},
              [i \in 1..Len(x.rows) |->
                 [c \in x.columns \cup {column} |->
                    IF c = column THEN values[i] ELSE x.rows[i][c]]])

---------------------------------------------------------------------------
(* Raw values: pd.to_numeric and pd.to_datetime read texts *)

Digits == <<"0", "1", "2", "3", "4", "5", "6", "7", "8", "9">>

IsDigit(ch) == \E i \in 1..Len(Digits) : Digits[i] = ch

DigitValue(ch) == (CHOOSE i \in 1..Len(Digits) : Digits[i] = ch) - 1

RECURSIVE Number(_)
\* The value of a text of digits.
Number(t) ==
    IF t = << >> THEN 0
    ELSE Number(SubSeq(t, 1, Len(t) - 1)) * 10 + DigitValue(t[Len(t)])

AllDigits(t) == Len(t) > 0 /\ \A i \in 1..Len(t) : IsDigit(t[i])

\* pd.to_numeric(x, errors='coerce'), one cell: NaN for what does not parse.
to_numeric(t) == IF AllDigits(t) THEN Number(t) ELSE NaN

\* A timestamp text pd.to_datetime(format='mixed') reads: "YYYY-MM-DD" or
\* "YYYY-MM-DD HH".
IsTimestamp(t) ==
    /\ Len(t) \in {10, 13}
    /\ AllDigits(SubSeq(t, 1, 4)) /\ t[5] = "-"
    /\ AllDigits(SubSeq(t, 6, 7)) /\ t[8] = "-"
    /\ AllDigits(SubSeq(t, 9, 10))
    /\ Number(SubSeq(t, 6, 7)) \in 1..12
    /\ Number(SubSeq(t, 9, 10)) \in 1..31
    /\ Len(t) = 13 =>
          /\ t[11] = " "
          /\ AllDigits(SubSeq(t, 12, 13))
          /\ Number(SubSeq(t, 12, 13)) \in 0..23

NaTValue == [year |-> NaN, month |-> NaN, day |-> NaN, hour |-> NaN]

\* pd.to_datetime raises on a text that is neither null nor a timestamp.
to_datetime_raises(x) == \E i \in 1..Len(x) : x[i] # NoText /\ ~IsTimestamp(x[i])

\* pd.to_datetime, one cell that parses: NaT for a null.
to_datetime(t) ==
    IF t = NoText THEN NaTValue
    ELSE [year |-> Number(SubSeq(t, 1, 4)),
          month |-> Number(SubSeq(t, 6, 7)),
          day |-> Number(SubSeq(t, 9, 10)),
          hour |-> IF Len(t) = 13 THEN Number(SubSeq(t, 12, 13)) ELSE 0]

TwoDigits(n) == <<Digits[(n \div 10) + 1], Digits[(n % 10) + 1]>>

FourDigits(n) == TwoDigits(n \div 100) \o TwoDigits(n % 100)

NaTText == <<"N", "a", "T">>

\* .dt.date.astype(str), one cell.
DateText(d) ==
    IF d = NaTValue THEN NaTText
    ELSE FourDigits(d.year) \o <<"-">> \o TwoDigits(d.month) \o <<"-">> \o TwoDigits(d.day)

\* .dt.time.astype(str), one cell.
TimeText(d) ==
    IF d = NaTValue THEN NaTText
    ELSE TwoDigits(d.hour) \o <<":", "0", "0", ":", "0", "0">>

MonthOffsets == <<0, 3, 2, 5, 0, 3, 5, 1, 4, 6, 2, 4>>

\* .dt.dayofweek, one cell: Monday is 0.
DayOfWeek(d) ==
    IF d = NaTValue THEN NaN
    ELSE LET y == IF d.month < 3 THEN d.year - 1 ELSE d.year
             sunday0 == (y + (y \div 4) - (y \div 100) + (y \div 400)
                           + MonthOffsets[d.month] + d.day) % 7
         IN (sunday0 + 6) % 7

---------------------------------------------------------------------------
(* data_processing/nodes.py *)

\* Python's order on str partition keys: by character, a prefix first.
RECURSIVE KeyLess(_, _)
KeyLess(a, b) ==
    IF b = << >> THEN FALSE
    ELSE IF a = << >> THEN TRUE
    ELSE IF Head(a) # Head(b) THEN DigitValue(Head(a)) < DigitValue(Head(b))
    ELSE KeyLess(Tail(a), Tail(b))

\* The items in the order of the dict.
UnsortedItems(items) == items

\* sorted(partitioned_input.items()): the keys of a dict are distinct.
SortedItems(items) ==
    LET rank(i) == 1 + Cardinality({j \in 1..Len(items) : KeyLess(items[j][1], items[i][1])})
    IN [r \in 1..Len(items) |-> items[CHOOSE i \in 1..Len(items) : rank(i) = r]]

RECURSIVE ConcatAll(_, _)
\* The loop of _concat_partitions over the items still to load.
ConcatAll(result, items) ==
    IF items = << >> THEN result
    ELSE ConcatAll(Concat(result, Head(items)[2]), Tail(items))

_concat_partitions(partitioned) == ConcatAll(EmptyFrame, SortedItems(partitioned))

\* x.index of a frame concatenated with ignore_index=True: 0, 1, ...
_create_id(x) == [i \in 1..Len(x.rows) |-> i - 1]

combine_incidents(partitioned) ==
    LET incidents == _concat_partitions(partitioned)
    IN Assign(incidents, "INCIDENT_ID", _create_id(incidents))

_get_time_of_day(hour) ==
    IF hour # NaN /\ 5 <= hour /\ hour < 12 THEN "morning"
    ELSE IF hour # NaN /\ 12 <= hour /\ hour < 17 THEN "afternoon"
    ELSE IF hour # NaN /\ 17 <= hour /\ hour < 21 THEN "evening"
    ELSE "night"

\* column_names maps old names to new ones; the other columns keep theirs.
_rename_columns(x, column_names) ==
    LET new(c) == IF c \in DOMAIN column_names THEN column_names[c] ELSE c
        cols == {new(c) : c \in x.columns}
    IN DataFrame(cols,
                 [i \in 1..Len(x.rows) |->
                    [n \in cols |-> x.rows[i][CHOOSE c \in x.columns : new(c) = n]]])

_drop_columns(x, column_names) ==
    DataFrame(x.columns \ column_names,
              [i \in 1..Len(x.rows) |->
                 [c \in x.columns \ column_names |-> x.rows[i][c]]])

\* pd.to_numeric(errors='coerce').fillna(0).astype(int), a Series of texts.
_parse_integers(x) ==
    [i \in 1..Len(x) |-> IF to_numeric(x[i]) = NaN THEN 0 ELSE to_numeric(x[i])]

_rename_incidents(x, map_of_values) ==
    [i \in 1..Len(x) |-> IF x[i] \in DOMAIN map_of_values THEN map_of_values[x[i]] ELSE x[i]]

\* A filter that drops the rows that match every pair of values_to_drop.
RemoveRowsMatchingAll(x, values_to_drop) ==
    Filter(x, [i \in 1..Len(x.rows) |->
                 \E k \in 1..Len(values_to_drop) :
                     x.rows[i][values_to_drop[k][1]] # values_to_drop[k][2]])

RECURSIVE _remove_incident_outliers(_, _)
\* values_to_drop: the dict's <<column, value>> items in order.
_remove_incident_outliers(x, values_to_drop) ==
    IF values_to_drop = << >> THEN x
    ELSE LET column == Head(values_to_drop)[1]
             value == Head(values_to_drop)[2]
         IN _remove_incident_outliers(
                Filter(x, [i \in 1..Len(x.rows) |-> x.rows[i][column] # value]),
                Tail(values_to_drop))

_remove_incident_NaN(x, columns_to_check) ==
    Filter(x, [i \in 1..Len(x.rows) |->
                 \A c \in columns_to_check : ~IsNull(c, x.rows[i][c])])

EraCutoff == 2024

_remove_incidents_2024(x, column_name) ==
    Filter(x, [i \in 1..Len(x.rows) |-> x.rows[i][column_name] # EraCutoff])

\* x.combine_first(y): x where it is not null, else y.
_combine_neighbourhoods_and_city(x, y) ==
    [i \in 1..Len(x) |-> IF x[i] # NA THEN x[i] ELSE y[i]]

\* The centroid of a rectangle <<x0, y0, x1, y1>> (projected, taken, and
\* projected back: the midpoint, to the precision of the model's grid).
CentroidX(g) == (g[1] + g[3]) \div 2
CentroidY(g) == (g[2] + g[4]) \div 2

_get_latitude_longitude(x) ==
    LET lat == [i \in 1..Len(x.rows) |-> CentroidY(x.rows[i].geometry)]
        lon == [i \in 1..Len(x.rows) |-> CentroidX(x.rows[i].geometry)]
    IN _drop_columns(Assign(Assign(x, "LATITUDE", lat), "LONGITUDE", lon), {"geometry"})

IncidentsDropColumns ==
    {"INCIDENT_NBR", "NOM_ARROND", "DIVISION", "NOM_VILLE", "MTM8_X", "MTM8_Y"}

new_incidents_column_names ==
    [CASERNE |-> "DISPATCHED_FIRE_STATION_ID",
     INCIDENT_TYPE_DESC |-> "INCIDENT_TYPE",
     DESCRIPTION_GROUPE |-> "INCIDENT_CATEGORY",
     NOMBRE_UNITES |-> "UNITS_DEPLOYED"]

\* Characters outside ASCII are written as their bytes in the source file.
map_of_incidents_values ==
    ("SANS FEU" :> "Sans incendie")
    @@ ("FAU-ALER" :> "Fausses alertes/annulations")
    @@ ("1-REPOND" :> "Premier r<C3 A9>pondant")
    @@ ("AUTREFEU" :> "Autres incendies")
    @@ ("INCENDIE" :> "Incendies de b<C3 A2>timents")

incidents_outliers_to_drop == <<<<"INCIDENT_CATEGORY", "NOUVEAU">>, <<"LATITUDE", 0>>>>

\* preprocess_incidents up to the dropna: the rows whose timestamps are parsed.
IncidentsFiltered(incidents) ==
    LET dropped == _drop_columns(incidents, IncidentsDropColumns)
        renamed == _rename_columns(dropped, new_incidents_column_names)
        relabelled == Assign(renamed, "INCIDENT_CATEGORY",
                             _rename_incidents(Col(renamed, "INCIDENT_CATEGORY"),
                                               map_of_incidents_values))
        kept == _remove_incident_outliers(relabelled, incidents_outliers_to_drop)
    IN _remove_incident_NaN(kept, {"LATITUDE", "LONGITUDE", "INCIDENT_CATEGORY"})

\* pd.to_datetime(incidents['CREATION_DATE_TIME'], format='mixed') raises.
preprocess_incidents_raises(incidents) ==
    to_datetime_raises(Col(IncidentsFiltered(incidents), "CREATION_DATE_TIME"))

preprocess_incidents(incidents) ==
    LET x == IncidentsFiltered(incidents)
        dt == [i \in 1..Len(x.rows) |-> to_datetime(x.rows[i].CREATION_DATE_TIME)]
        n == Len(x.rows)
        x1 == Assign(x, "CREATION_DATE", [i \in 1..n |-> DateText(dt[i])])
        x2 == Assign(x1, "CREATION_TIME", [i \in 1..n |-> TimeText(dt[i])])
        x3 == Assign(x2, "day_of_week", [i \in 1..n |-> DayOfWeek(dt[i])])
        x4 == Assign(x3, "month", [i \in 1..n |-> dt[i].month])
        x5 == Assign(x4, "year", [i \in 1..n |-> dt[i].year])
        x6 == Assign(x5, "hour", [i \in 1..n |-> dt[i].hour])
        x7 == Assign(x6, "time_of_day", [i \in 1..n |-> _get_time_of_day(dt[i].hour)])
        x8 == _drop_columns(x7, {"CREATION_DATE_TIME"})
        x9 == _remove_incidents_2024(x8, "year")
    IN Assign(x9, "UNITS_DEPLOYED", _parse_integers(Col(x9, "UNITS_DEPLOYED")))

\* _parse_date raises where pd.to_datetime does.
_parse_date_raises(x) == to_datetime_raises(x)

\* _parse_date: the date texts and the time texts of a Series of timestamps.
_parse_date(x) ==
    <<[i \in 1..Len(x) |-> DateText(to_datetime(x[i]))],
      [i \in 1..Len(x) |-> TimeText(to_datetime(x[i]))]>>

new_firestations_column_names ==
    [CASERNE |-> "FIRE_STATION_ID",
     NO_CIVIQUE |-> "STREET_NUMBER",
     RUE |-> "STREET_NAME",
     ARRONDISSEMENT |-> "NEIGHBORHOOD",
     VILLE |-> "CITY",
     NOM_RUE |-> "STREET_NAME",
     DATE_DEBUT |-> "START_DATE",
     DATE_FIN |-> "END_DATE"]

\* preprocess_firestations up to the first _parse_date.
FirestationsRenamed(stations) ==
    LET renamed == _rename_columns(stations, new_firestations_column_names)
        area == Assign(renamed, "AREA",
                       _combine_neighbourhoods_and_city(Col(renamed, "NEIGHBORHOOD"),
                                                        Col(renamed, "CITY")))
    IN _drop_columns(area, {"NEIGHBORHOOD", "CITY", "MTM8_X", "MTM8_Y"})

preprocess_firestations_raises(stations) ==
    \/ _parse_date_raises(Col(FirestationsRenamed(stations), "START_DATE"))
    \/ _parse_date_raises(Col(FirestationsRenamed(stations), "END_DATE"))

preprocess_firestations(stations) ==
    LET x == FirestationsRenamed(stations)
        x1 == Assign(x, "START_DATE", _parse_date(Col(x, "START_DATE"))[1])
    IN Assign(x1, "END_DATE", _parse_date(Col(x1, "END_DATE"))[1])

preprocess_firestation_areas(areas) ==
    _rename_columns(_drop_columns(areas, {"NOM_CAS_AD", "OBJECTID"}),
                    [NO_CAS_ADM |-> "FIRE_STATION_ID"])

AssessmentsDropColumns ==
    {"MUNICIPALITE", "CIVIQUE_DEBUT", "CIVIQUE_FIN", "NOM_RUE", "SUITE_DEBUT",
     "LETTRE_DEBUT", "LETTRE_FIN", "MATRICULE83", "NO_ARROND_ILE_CUM"}

new_property_assessments_column_names ==
    [ID_UEV |-> "ASSESSMENT_ID",
     ETAGE_HORS_SOL |-> "ABOVE_GROUND_FLOORS",
     NOMBRE_LOGEMENT |-> "HOUSING_UNITS",
     ANNEE_CONSTRUCTION |-> "YEAR_CONSTRUCTION",
     CODE_UTILISATION |-> "USE_CODE",
     LIBELLE_UTILISATION |-> "USE_DESCRIPTION",
     CATEGORIE_UEF |-> "USE_CATEGORY",
     SUPERFICIE_TERRAIN |-> "AREA_LAND",
     SUPERFICIE_BATIMENT |-> "AREA_BUILDING"]

AssessmentsIntegerColumns ==
    <<"ABOVE_GROUND_FLOORS", "HOUSING_UNITS", "YEAR_CONSTRUCTION", "USE_CODE",
      "AREA_LAND", "AREA_BUILDING">>

RECURSIVE ParseIntegerColumns(_, _)
\* x[c] = _parse_integers(x[c]) for the columns in turn.
ParseIntegerColumns(x, columns) ==
    IF columns = << >> THEN x
    ELSE ParseIntegerColumns(
             Assign(x, Head(columns), _parse_integers(Col(x, Head(columns)))),
             Tail(columns))

YearConstructionLimit == 2024

\* np.where(x <= 2024, x, np.nan), a Series of parsed years.
YearConstructionOrNaN(x) ==
    [i \in 1..Len(x) |-> IF x[i] <= YearConstructionLimit THEN x[i] ELSE NaN]

map_of_assessments_values == ("R<C3 A9>gulier" :> "Regular")

preprocess_property_assessments(assessments) ==
    LET located == _get_latitude_longitude(assessments)
        dropped == _drop_columns(located, AssessmentsDropColumns)
        renamed == _rename_columns(dropped, new_property_assessments_column_names)
        parsed == ParseIntegerColumns(renamed, AssessmentsIntegerColumns)
        years == Assign(parsed, "YEAR_CONSTRUCTION",
                        YearConstructionOrNaN(Col(parsed, "YEAR_CONSTRUCTION")))
    IN Assign(years, "USE_CATEGORY",
              _rename_incidents(Col(years, "USE_CATEGORY"), map_of_assessments_values))

new_census_column_names ==
    ("Average size of census families" :> "AVERAGE_FAMILY_SIZE")
    @@ ("Population density per square kilometre" :> "POPULATION_DENSITY")
    @@ ("Population, 2021" :> "2021_POPULATION")

census_outliers_to_drop == <<<<"POPULATION_DENSITY", 0>>, <<"2021_POPULATION", 0>>>>

preprocess_census(units) ==
    LET lon == [i \in 1..Len(units.rows) |-> CentroidX(units.rows[i].geometry)]
        lat == [i \in 1..Len(units.rows) |-> CentroidY(units.rows[i].geometry)]
        located == Assign(Assign(units, "LONGITUDE", lon), "LATITUDE", lat)
        renamed == _rename_columns(_drop_columns(located, {"geometry"}),
                                   new_census_column_names)
    IN _remove_incident_outliers(renamed, census_outliers_to_drop)

---------------------------------------------------------------------------
(* feature_engineering/nodes.py *)

\* np.where(x.isin(condition), True, False): a null is in no list.
_generate_flag(x, condition) == [i \in 1..Len(x) |-> x[i] \in condition]

\* A point <<x, y>> intersects a rectangle: inside it or on its boundary.
Intersects(point, g) ==
    /\ point[1] # NaN /\ point[2] # NaN
    /\ g[1] <= point[1] /\ point[1] <= g[3]
    /\ g[2] <= point[2] /\ point[2] <= g[4]

\* One row of gpd.sjoin: the left row, the index of the right row, and the
\* right row's columns but its geometry.
JoinedRow(left, right, j, cols) ==
    [c \in cols |->
        IF c \in DOMAIN left THEN left[c]
        ELSE IF c = "index_mesh" THEN j - 1
        ELSE right[c]]

RECURSIVE Flatten(_)
Flatten(seqs) == IF seqs = << >> THEN << >> ELSE Head(seqs) \o Flatten(Tail(seqs))

\* gpd.sjoin(x_left, x_right, how='inner', predicate='intersects'): the
\* matching pairs, by left row and then by right row.
_spatial_join_points(x_left, x_right) ==
    LET cols == x_left.columns \cup {"index_mesh"} \cup (x_right.columns \ {"geometry"})
        matches(i) ==
            SelectSeq([j \in 1..Len(x_right.rows) |-> j],
                      LAMBDA j : Intersects(x_left.rows[i].geometry,
                                            x_right.rows[j].geometry))
        joined(i) ==
            [k \in 1..Len(matches(i)) |->
                JoinedRow(x_left.rows[i], x_right.rows[matches(i)[k]],
                          matches(i)[k], cols)]
    IN DataFrame(cols, Flatten([i \in 1..Len(x_left.rows) |-> joined(i)]))

\* A deduplication that keeps the last row of every key.
RemoveDuplicatesKeepLast(x, subset) ==
    Filter(x, [i \in 1..Len(x.rows) |->
                 ~\E j \in (i + 1)..Len(x.rows) :
                     \A c \in subset : x.rows[j][c] = x.rows[i][c]])

\* x.drop_duplicates(subset=subset, keep='first'): nulls are equal keys.
_remove_duplicates(x, subset) ==
    Filter(x, [i \in 1..Len(x.rows) |->
                 ~\E j \in 1..(i - 1) :
                     \A c \in subset : x.rows[j][c] = x.rows[i][c]])

_intersect_mesh(x, mesh, duplicate_keys) ==
    _remove_duplicates(_spatial_join_points(x, mesh), duplicate_keys)

\* x with the centroid coordinates of its rectangles.
_get_centroid_coordinates(x) ==
    LET lon == [i \in 1..Len(x.rows) |-> CentroidX(x.rows[i].geometry)]
        lat == [i \in 1..Len(x.rows) |-> CentroidY(x.rows[i].geometry)]
    IN Assign(Assign(x, "grid_long", lon), "grid_lat", lat)

\* Great-circle distance stands as the squared offset between the two
\* points: 0 exactly when they coincide, null when a coordinate is null.
_haversine_distance(lat1, lon1, lat2, lon2) ==
    IF NaN \in {lat1, lon1, lat2, lon2} THEN NaN
    ELSE (lat2 - lat1) * (lat2 - lat1) + (lon2 - lon1) * (lon2 - lon1)

\* The age counted from the year the limit on YEAR_CONSTRUCTION names.
BuildingAgeFrom2024(x) == IF x = NaN THEN NaN ELSE 2024 - x

\* current_year - x, one cell.
_calculate_building_age(x) == IF x = NaN THEN NaN ELSE current_year - x

Min(S) == CHOOSE m \in S : \A n \in S : m <= n
Max(S) == CHOOSE m \in S : \A n \in S : n <= m

\* np.arange(start, stop, step).
Arange(start, stop, step) ==
    [k \in 1..((stop - start + step - 1) \div step) |-> start + (k - 1) * step]

\* The part of square sq inside area a, when it has an area.
Overlaps(sq, g) ==
    /\ Max({sq[1], g[1]}) < Min({sq[3], g[3]})
    /\ Max({sq[2], g[2]}) < Min({sq[4], g[4]})

Intersection(sq, g) ==
    <<Max({sq[1], g[1]}), Max({sq[2], g[2]}), Min({sq[3], g[3]}), Min({sq[4], g[4]})>>

create_square_mesh(areas, size) ==
    LET n == Len(areas.rows)
        minx == Min({areas.rows[i].geometry[1] : i \in 1..n})
        miny == Min({areas.rows[i].geometry[2] : i \in 1..n})
        maxx == Max({areas.rows[i].geometry[3] : i \in 1..n})
        maxy == Max({areas.rows[i].geometry[4] : i \in 1..n})
        x_coords == Arange(minx, maxx, size)
        y_coords == Arange(miny, maxy, size)
        squares ==
            Flatten([ix \in 1..Len(x_coords) |->
                       [iy \in 1..Len(y_coords) |->
                          <<x_coords[ix], y_coords[iy],
                            x_coords[ix] + size, y_coords[iy] + size>>]])
        clipped(s) ==
            LET hit == SelectSeq([i \in 1..n |-> i],
                                 LAMBDA i : Overlaps(squares[s], areas.rows[i].geometry))
            IN [k \in 1..Len(hit) |->
                  [c \in areas.columns |->
                     IF c = "geometry"
                     THEN Intersection(squares[s], areas.rows[hit[k]].geometry)
                     ELSE areas.rows[hit[k]][c]]]
        clipped_squares ==
            DataFrame(areas.columns, Flatten([s \in 1..Len(squares) |-> clipped(s)]))
    IN _get_centroid_coordinates(clipped_squares)

\* gpd.points_from_xy(x.LONGITUDE, x.LATITUDE) as the geometry of x.
WithPoints(x) ==
    Assign(x, "geometry", [i \in 1..Len(x.rows) |-> <<x.rows[i].LONGITUDE, x.rows[i].LATITUDE>>])

spatial_join_incidents(incidents, mesh) ==
    _drop_columns(_intersect_mesh(WithPoints(incidents), mesh, {"INCIDENT_ID"}),
                  {"geometry"})

spatial_join_property_assessments(assessments, mesh) ==
    _drop_columns(_intersect_mesh(WithPoints(assessments), mesh, {"ASSESSMENT_ID"}),
                  {"geometry"})

spatial_join_census(units, mesh) ==
    _drop_columns(_intersect_mesh(WithPoints(units), mesh, {"DGUID"}), {"geometry"})

merge_incidents_property_assessments(incidents, assessments) ==
    Concat(incidents, assessments)

merge_incidents_property_assessments_census(incidents_assessments, units) ==
    Concat(incidents_assessments, units)

FireCategories == {"Autres incendies", "Incendies de b<E2 88 9A C2 A2>timents"}

\* The name pandas gives a right column that a left column already has.
Suffixed(c, left_columns) ==
    IF c \notin left_columns THEN c
    ELSE IF c = "LATITUDE" THEN "LATITUDE_firestation"
    ELSE "LONGITUDE_firestation"

\* table.merge(right, left_on=left_on, right_on=right_on, how='left',
\* suffixes=("", "_firestation")), the two keys of one name: every left row,
\* once per right row with an equal key (null keys are equal keys), or once
\* with nulls when there is none.
MergeLeft(table, right, left_on, right_on) ==
    LET rcols == right.columns \ {right_on}
        cols == table.columns \cup {Suffixed(c, table.columns) : c \in rcols}
        from(c) == CHOOSE r \in rcols : Suffixed(r, table.columns) = c
        matches(i) ==
            SelectSeq([j \in 1..Len(right.rows) |-> j],
                      LAMBDA j : right.rows[j][right_on] = table.rows[i][left_on])
        one(i, j) ==
            [c \in cols |->
                IF c \in table.columns THEN table.rows[i][c]
                ELSE IF j = 0 THEN NullOf(from(c))
                ELSE right.rows[j][from(c)]]
        rows(i) ==
            IF matches(i) = << >> THEN <<one(i, 0)>>
            ELSE [k \in 1..Len(matches(i)) |-> one(i, matches(i)[k])]
    IN DataFrame(cols, Flatten([i \in 1..Len(table.rows) |-> rows(i)]))

\* firestations[["FIRE_STATION_ID", "LATITUDE", "LONGITUDE"]]
StationCoordinates(stations) ==
    _drop_columns(stations, stations.columns \ {"FIRE_STATION_ID", "LATITUDE", "LONGITUDE"})

BuildingAge(table) ==
    [i \in 1..Len(table.rows) |->
        IF ~IsNull("ASSESSMENT_ID", table.rows[i].ASSESSMENT_ID)
        THEN _calculate_building_age(table.rows[i].YEAR_CONSTRUCTION)
        ELSE NaN]

\* A merge on the station dispatched to the incident.
StationKeyDispatched == "DISPATCHED_FIRE_STATION_ID"

\* left_on of the merge with the stations.
StationKey == "FIRE_STATION_ID"

\* A cleanup that drops the stations' coordinates.
CleanupColumnsOfStation == {"LATITUDE_firestation", "LONGITUDE_firestation"}

\* The columns of the final drop.
CleanupColumns == {"LATITUDE", "LONGITUDE"}

create_input_table(table, stations) ==
    LET aged == Assign(table, "building_age", BuildingAge(table))
        merged == MergeLeft(aged, StationCoordinates(stations),
                            StationKey, "FIRE_STATION_ID")
        distance ==
            [i \in 1..Len(merged.rows) |->
                _haversine_distance(merged.rows[i].grid_lat, merged.rows[i].grid_long,
                                    merged.rows[i].LATITUDE_firestation,
                                    merged.rows[i].LONGITUDE_firestation)]
        measured == Assign(merged, "distance_to_fire_station", distance)
        flagged == Assign(measured, "is_fire",
                          _generate_flag(Col(measured, "INCIDENT_CATEGORY"), FireCategories))
    IN _drop_columns(flagged, CleanupColumns)

---------------------------------------------------------------------------
(* The raw catalog entries a run starts from *)

IncidentColumns ==
    {"INCIDENT_NBR", "CREATION_DATE_TIME", "INCIDENT_TYPE_DESC", "DESCRIPTION_GROUPE",
     "CASERNE", "NOM_VILLE", "NOM_ARROND", "DIVISION", "LATITUDE", "LONGITUDE",
     "NOMBRE_UNITES", "MTM8_X", "MTM8_Y"}

IncidentRow(caserne, groupe, lat, lon, when, units) ==
    [INCIDENT_NBR |-> 1, CREATION_DATE_TIME |-> when, INCIDENT_TYPE_DESC |-> "Alarme",
     DESCRIPTION_GROUPE |-> groupe, CASERNE |-> caserne, NOM_VILLE |-> "Montreal",
     NOM_ARROND |-> NA, DIVISION |-> "D1", LATITUDE |-> lat, LONGITUDE |-> lon,
     NOMBRE_UNITES |-> units, MTM8_X |-> 0, MTM8_Y |-> 0]

FirestationColumns ==
    {"CASERNE", "NO_CIVIQUE", "RUE", "ARRONDISSEMENT", "VILLE", "DATE_DEBUT",
     "DATE_FIN", "MTM8_X", "MTM8_Y", "LATITUDE", "LONGITUDE"}

FirestationRow(caserne, lat, lon, debut, fin) ==
    [CASERNE |-> caserne, NO_CIVIQUE |-> 1, RUE |-> "rue", ARRONDISSEMENT |-> NA,
     VILLE |-> "Montreal", DATE_DEBUT |-> debut, DATE_FIN |-> fin,
     MTM8_X |-> 0, MTM8_Y |-> 0, LATITUDE |-> lat, LONGITUDE |-> lon]

AreaColumns == {"NOM_CAS_AD", "OBJECTID", "NO_CAS_ADM", "geometry"}

AreaRow(station, g) ==
    [NOM_CAS_AD |-> "caserne", OBJECTID |-> 1, NO_CAS_ADM |-> station, geometry |-> g]

AssessmentColumns ==
    {"ID_UEV", "CIVIQUE_DEBUT", "CIVIQUE_FIN", "NOM_RUE", "SUITE_DEBUT", "MUNICIPALITE",
     "ETAGE_HORS_SOL", "NOMBRE_LOGEMENT", "ANNEE_CONSTRUCTION", "CODE_UTILISATION",
     "LETTRE_DEBUT", "LETTRE_FIN", "LIBELLE_UTILISATION", "CATEGORIE_UEF",
     "MATRICULE83", "SUPERFICIE_TERRAIN", "SUPERFICIE_BATIMENT", "NO_ARROND_ILE_CUM",
     "geometry"}

AssessmentRow(id, annee, g) ==
    [ID_UEV |-> id, CIVIQUE_DEBUT |-> 1, CIVIQUE_FIN |-> 1, NOM_RUE |-> "rue",
     SUITE_DEBUT |-> NA, MUNICIPALITE |-> "50", ETAGE_HORS_SOL |-> <<"2">>,
     NOMBRE_LOGEMENT |-> <<"1">>, ANNEE_CONSTRUCTION |-> annee,
     CODE_UTILISATION |-> <<"1", "0">>, LETTRE_DEBUT |-> NA, LETTRE_FIN |-> NA,
     LIBELLE_UTILISATION |-> "Logement", CATEGORIE_UEF |-> "R<C3 A9>gulier",
     MATRICULE83 |-> "m", SUPERFICIE_TERRAIN |-> <<"9">>, SUPERFICIE_BATIMENT |-> NoText,
     NO_ARROND_ILE_CUM |-> "R", geometry |-> g]

CensusColumns ==
    {"DGUID", "geometry", "Average size of census families",
     "Population density per square kilometre", "Population, 2021"}

CensusRow(id, density, population, g) ==
    ("DGUID" :> id) @@ ("geometry" :> g)
    @@ ("Average size of census families" :> 3)
    @@ ("Population density per square kilometre" :> density)
    @@ ("Population, 2021" :> population)

\* The DataFrames of at most n rows over the sample rows.
Frames(cols, samples, n) ==
    {DataFrame(cols, rws) : rws \in UNION {[1..k -> samples] : k \in 0..n}}

\* The partitioned inputs that hold the rows rws: one partition, or two
\* under the keys in the dict order keys, the first rows in the first.
Partitionings(rws, keyorders) ==
    {IF Len(keys) = 1
     THEN <<<<keys[1], DataFrame(IncidentColumns, rws)>>>>
     ELSE <<<<keys[1], DataFrame(IncidentColumns, SubSeq(rws, 1, k))>>,
            <<keys[2], DataFrame(IncidentColumns, SubSeq(rws, k + 1, Len(rws)))>>>>
       : keys \in keyorders, k \in 0..Len(rws)}

Nodes ==
    <<"combine_incidents", "preprocess_incidents", "preprocess_firestations",
      "preprocess_firestation_areas", "preprocess_property_assessments",
      "preprocess_census", "create_square_mesh", "spatial_join_incidents",
      "spatial_join_property_assessments", "spatial_join_census",
      "merge_incidents_property_assessments",
      "merge_incidents_property_assessments_census", "create_input_table", "done">>

\* The node registered after node.
After(node) == Nodes[(CHOOSE i \in 1..Len(Nodes) : Nodes[i] = node) + 1]

NodeIndex(node) == CHOOSE i \in 1..Len(Nodes) : Nodes[i] = node

\* node has run and returned.
Ran(node) ==
    IF pc = "raised" THEN NodeIndex(raised_in) > NodeIndex(node)
    ELSE NodeIndex(pc) > NodeIndex(node)

\* The state before the first node: the catalog holds the raw inputs only.
Start(partitioned, stations, areas, assessments, units, year, size) ==
    /\ pc = Nodes[1]
    /\ raised_in = "none"
    /\ current_year = year
    /\ square_size = size
    /\ partitioned_input = partitioned
    /\ firestations = stations
    /\ firestation_areas = areas
    /\ property_assessments = assessments
    /\ census = units
    /\ combined_incidents = EmptyFrame
    /\ preprocessed_incidents = EmptyFrame
    /\ preprocessed_firestations = EmptyFrame
    /\ preprocessed_firestation_areas = EmptyFrame
    /\ preprocessed_property_assessments = EmptyFrame
    /\ preprocessed_census = EmptyFrame
    /\ square_mesh = EmptyFrame
    /\ spatial_joined_incidents = EmptyFrame
    /\ spatial_joined_property_assessments = EmptyFrame
    /\ spatial_joined_census = EmptyFrame
    /\ merged_incidents_property_assessments = EmptyFrame
    /\ merged_incidents_property_assessments_census = EmptyFrame
    /\ input_table = EmptyFrame

---------------------------------------------------------------------------
(* The nodes, one action each *)

Raise(node) == pc' = "raised" /\ raised_in' = node

CombineIncidents ==
    /\ pc = "combine_incidents"
    /\ combined_incidents' = combine_incidents(partitioned_input)
    /\ pc' = After(pc)
    /\ UNCHANGED <<raised_in, current_year, square_size, partitioned_input,
                   firestations, firestation_areas, property_assessments, census,
                   preprocessed_incidents, preprocessed_firestations,
                   preprocessed_firestation_areas, preprocessed_property_assessments,
                   preprocessed_census, square_mesh, spatial_joined_incidents,
                   spatial_joined_property_assessments, spatial_joined_census,
                   merged_incidents_property_assessments,
                   merged_incidents_property_assessments_census, input_table>>

PreprocessIncidents ==
    /\ pc = "preprocess_incidents"
    /\ IF preprocess_incidents_raises(combined_incidents)
       THEN Raise(pc) /\ UNCHANGED preprocessed_incidents
       ELSE /\ preprocessed_incidents' = preprocess_incidents(combined_incidents)
            /\ pc' = After(pc)
            /\ UNCHANGED raised_in
    /\ UNCHANGED <<current_year, square_size, partitioned_input,
                   firestations, firestation_areas, property_assessments, census,
                   combined_incidents, preprocessed_firestations,
                   preprocessed_firestation_areas, preprocessed_property_assessments,
                   preprocessed_census, square_mesh, spatial_joined_incidents,
                   spatial_joined_property_assessments, spatial_joined_census,
                   merged_incidents_property_assessments,
                   merged_incidents_property_assessments_census, input_table>>

PreprocessFirestations ==
    /\ pc = "preprocess_firestations"
    /\ IF preprocess_firestations_raises(firestations)
       THEN Raise(pc) /\ UNCHANGED preprocessed_firestations
       ELSE /\ preprocessed_firestations' = preprocess_firestations(firestations)
            /\ pc' = After(pc)
            /\ UNCHANGED raised_in
    /\ UNCHANGED <<current_year, square_size, partitioned_input,
                   firestations, firestation_areas, property_assessments, census,
                   combined_incidents, preprocessed_incidents,
                   preprocessed_firestation_areas, preprocessed_property_assessments,
                   preprocessed_census, square_mesh, spatial_joined_incidents,
                   spatial_joined_property_assessments, spatial_joined_census,
                   merged_incidents_property_assessments,
                   merged_incidents_property_assessments_census, input_table>>

PreprocessFirestationAreas ==
    /\ pc = "preprocess_firestation_areas"
    /\ preprocessed_firestation_areas' = preprocess_firestation_areas(firestation_areas)
    /\ pc' = After(pc)
    /\ UNCHANGED <<raised_in, current_year, square_size, partitioned_input,
                   firestations, firestation_areas, property_assessments, census,
                   combined_incidents, preprocessed_incidents, preprocessed_firestations,
                   preprocessed_property_assessments,
                   preprocessed_census, square_mesh, spatial_joined_incidents,
                   spatial_joined_property_assessments, spatial_joined_census,
                   merged_incidents_property_assessments,
                   merged_incidents_property_assessments_census, input_table>>

PreprocessPropertyAssessments ==
    /\ pc = "preprocess_property_assessments"
    /\ preprocessed_property_assessments' =
           preprocess_property_assessments(property_assessments)
    /\ pc' = After(pc)
    /\ UNCHANGED <<raised_in, current_year, square_size, partitioned_input,
                   firestations, firestation_areas, property_assessments, census,
                   combined_incidents, preprocessed_incidents, preprocessed_firestations,
                   preprocessed_firestation_areas,
                   preprocessed_census, square_mesh, spatial_joined_incidents,
                   spatial_joined_property_assessments, spatial_joined_census,
                   merged_incidents_property_assessments,
                   merged_incidents_property_assessments_census, input_table>>

PreprocessCensus ==
    /\ pc = "preprocess_census"
    /\ preprocessed_census' = preprocess_census(census)
    /\ pc' = After(pc)
    /\ UNCHANGED <<raised_in, current_year, square_size, partitioned_input,
                   firestations, firestation_areas, property_assessments, census,
                   combined_incidents, preprocessed_incidents, preprocessed_firestations,
                   preprocessed_firestation_areas, preprocessed_property_assessments,
                   square_mesh, spatial_joined_incidents,
                   spatial_joined_property_assessments, spatial_joined_census,
                   merged_incidents_property_assessments,
                   merged_incidents_property_assessments_census, input_table>>

CreateSquareMesh ==
    /\ pc = "create_square_mesh"
    /\ square_mesh' = create_square_mesh(preprocessed_firestation_areas, square_size)
    /\ pc' = After(pc)
    /\ UNCHANGED <<raised_in, current_year, square_size, partitioned_input,
                   firestations, firestation_areas, property_assessments, census,
                   combined_incidents, preprocessed_incidents, preprocessed_firestations,
                   preprocessed_firestation_areas, preprocessed_property_assessments,
                   preprocessed_census, spatial_joined_incidents,
                   spatial_joined_property_assessments, spatial_joined_census,
                   merged_incidents_property_assessments,
                   merged_incidents_property_assessments_census, input_table>>

SpatialJoinIncidents ==
    /\ pc = "spatial_join_incidents"
    /\ spatial_joined_incidents' = spatial_join_incidents(preprocessed_incidents, square_mesh)
    /\ pc' = After(pc)
    /\ UNCHANGED <<raised_in, current_year, square_size, partitioned_input,
                   firestations, firestation_areas, property_assessments, census,
                   combined_incidents, preprocessed_incidents, preprocessed_firestations,
                   preprocessed_firestation_areas, preprocessed_property_assessments,
                   preprocessed_census, square_mesh,
                   spatial_joined_property_assessments, spatial_joined_census,
                   merged_incidents_property_assessments,
                   merged_incidents_property_assessments_census, input_table>>

SpatialJoinPropertyAssessments ==
    /\ pc = "spatial_join_property_assessments"
    /\ spatial_joined_property_assessments' =
           spatial_join_property_assessments(preprocessed_property_assessments, square_mesh)
    /\ pc' = After(pc)
    /\ UNCHANGED <<raised_in, current_year, square_size, partitioned_input,
                   firestations, firestation_areas, property_assessments, census,
                   combined_incidents, preprocessed_incidents, preprocessed_firestations,
                   preprocessed_firestation_areas, preprocessed_property_assessments,
                   preprocessed_census, square_mesh, spatial_joined_incidents,
                   spatial_joined_census,
                   merged_incidents_property_assessments,
                   merged_incidents_property_assessments_census, input_table>>

SpatialJoinCensus ==
    /\ pc = "spatial_join_census"
    /\ spatial_joined_census' = spatial_join_census(preprocessed_census, square_mesh)
    /\ pc' = After(pc)
    /\ UNCHANGED <<raised_in, current_year, square_size, partitioned_input,
                   firestations, firestation_areas, property_assessments, census,
                   combined_incidents, preprocessed_incidents, preprocessed_firestations,
                   preprocessed_firestation_areas, preprocessed_property_assessments,
                   preprocessed_census, square_mesh, spatial_joined_incidents,
                   spatial_joined_property_assessments,
                   merged_incidents_property_assessments,
                   merged_incidents_property_assessments_census, input_table>>

MergeIncidentsPropertyAssessments ==
    /\ pc = "merge_incidents_property_assessments"
    /\ merged_incidents_property_assessments' =
           merge_incidents_property_assessments(spatial_joined_incidents,
                                                spatial_joined_property_assessments)
    /\ pc' = After(pc)
    /\ UNCHANGED <<raised_in, current_year, square_size, partitioned_input,
                   firestations, firestation_areas, property_assessments, census,
                   combined_incidents, preprocessed_incidents, preprocessed_firestations,
                   preprocessed_firestation_areas, preprocessed_property_assessments,
                   preprocessed_census, square_mesh, spatial_joined_incidents,
                   spatial_joined_property_assessments, spatial_joined_census,
                   merged_incidents_property_assessments_census, input_table>>

MergeIncidentsPropertyAssessmentsCensus ==
    /\ pc = "merge_incidents_property_assessments_census"
    /\ merged_incidents_property_assessments_census' =
           merge_incidents_property_assessments_census(
               merged_incidents_property_assessments, spatial_joined_census)
    /\ pc' = After(pc)
    /\ UNCHANGED <<raised_in, current_year, square_size, partitioned_input,
                   firestations, firestation_areas, property_assessments, census,
                   combined_incidents, preprocessed_incidents, preprocessed_firestations,
                   preprocessed_firestation_areas, preprocessed_property_assessments,
                   preprocessed_census, square_mesh, spatial_joined_incidents,
                   spatial_joined_property_assessments, spatial_joined_census,
                   merged_incidents_property_assessments, input_table>>

CreateInputTable ==
    /\ pc = "create_input_table"
    /\ input_table' = create_input_table(merged_incidents_property_assessments_census,
                                         preprocessed_firestations)
    /\ pc' = After(pc)
    /\ UNCHANGED <<raised_in, current_year, square_size, partitioned_input,
                   firestations, firestation_areas, property_assessments, census,
                   combined_incidents, preprocessed_incidents, preprocessed_firestations,
                   preprocessed_firestation_areas, preprocessed_property_assessments,
                   preprocessed_census, square_mesh, spatial_joined_incidents,
                   spatial_joined_property_assessments, spatial_joined_census,
                   merged_incidents_property_assessments,
                   merged_incidents_property_assessments_census>>

Next ==
    \/ CombineIncidents
    \/ PreprocessIncidents
    \/ PreprocessFirestations
    \/ PreprocessFirestationAreas
    \/ PreprocessPropertyAssessments
    \/ PreprocessCensus
    \/ CreateSquareMesh
    \/ SpatialJoinIncidents
    \/ SpatialJoinPropertyAssessments
    \/ SpatialJoinCensus
    \/ MergeIncidentsPropertyAssessments
    \/ MergeIncidentsPropertyAssessmentsCensus
    \/ CreateInputTable

---------------------------------------------------------------------------
(* Sample inputs *)

When2023 == <<"2", "0", "2", "3", "-", "0", "6", "-", "1", "5", " ", "1", "3">>
When2024 == <<"2", "0", "2", "4", "-", "0", "1", "-", "0", "2", " ", "0", "4">>
WhenUnparseable == <<"n", "/", "a">>
Day2015 == <<"2", "0", "1", "5", "-", "0", "1", "-", "0", "1">>

WestArea == <<0, 0, 2, 2>>
EastArea == <<2, 0, 4, 2>>

TwoAreas == DataFrame(AreaColumns, <<AreaRow(1, WestArea), AreaRow(2, EastArea)>>)

TwoStations ==
    DataFrame(FirestationColumns,
              <<FirestationRow(1, 1, 0, Day2015, NoText),
                FirestationRow(2, 1, 4, Day2015, NoText)>>)

OneAssessment ==
    DataFrame(AssessmentColumns, <<AssessmentRow(7, <<"1", "9", "9", "0">>, WestArea)>>)

OneCensusUnit == DataFrame(CensusColumns, <<CensusRow("A", 5, 100, EastArea)>>)

OneIncident ==
    DataFrame(IncidentColumns, <<IncidentRow(2, "INCENDIE", 1, 1, When2023, <<"3">>)>>)

OnePartition == {<<<<"9">>>>}

MaxIncidents == 2
MaxStations == 2

\* Incidents that pass the filters: each dispatched station, each kind of
\* category, in the west cell, on the line between the cells, in the east.
FeatureIncidents ==
    {IncidentRow(caserne, groupe, 1, lon, When2023, <<"3">>) :
        caserne \in {1, 2}, groupe \in {"INCENDIE", "AUTREFEU", "SANS FEU"},
        lon \in {1, 2}}

\* Stations 1 and 2, a second row for station 1, and a row with no number.
StationSamples ==
    {FirestationRow(1, 1, 0, Day2015, NoText), FirestationRow(2, 1, 4, Day2015, NoText),
     FirestationRow(1, 2, 0, Day2015, Day2015), FirestationRow(NaN, 2, 4, Day2015, NoText)}

\* The east area belongs to station 2, to a station 3, or to none.
AreaFrames ==
    {DataFrame(AreaColumns, <<AreaRow(1, WestArea), AreaRow(east, EastArea)>>) :
        east \in {2, 3, NaN}}

\* Runs that differ in their incidents.
InitIncidents ==
    \E rws \in UNION {[1..k -> FeatureIncidents] : k \in 0..MaxIncidents} :
    \E partitioned \in Partitionings(rws, OnePartition) :
        Start(partitioned, TwoStations, TwoAreas, OneAssessment, OneCensusUnit, 2026, 2)

\* Runs that differ in their stations and in the stations of the areas.
InitStations ==
    \E stations \in Frames(FirestationColumns, StationSamples, MaxStations) :
    \E areas \in AreaFrames :
    \E size \in {2, 4} :
        Start(<<<< <<"9">>, OneIncident>>>>, stations, areas, OneAssessment,
              OneCensusUnit, 2026, size)

Init == InitIncidents \/ InitStations

Spec == Init /\ [][Next]_vars

---------------------------------------------------------------------------
(* Claims about create_input_table, under Spec *)

Rows(x) == {x.rows[i] : i \in 1..Len(x.rows)}

Finished == pc = "done"

\* C1: every row of input_table has is_fire true exactly when its
\* INCIDENT_CATEGORY is 'Incendies de batiments' (as preprocess_incidents
\* writes it) or 'Autres incendies', and false otherwise, never null.
C1_FireFlagOfRelabelledCategory ==
    Finished =>
        \A r \in Rows(input_table) :
            /\ r.is_fire \in BOOLEAN
            /\ r.is_fire = (r.INCIDENT_CATEGORY \in
                              {map_of_incidents_values["INCENDIE"],
                               map_of_incidents_values["AUTREFEU"]})

\* A station row whose coordinates are the ones row r was given and
\* measured against.
UsedStation(r, s) ==
    /\ s.LATITUDE = r.LATITUDE_firestation
    /\ s.LONGITUDE = r.LONGITUDE_firestation
    /\ r.distance_to_fire_station =
           _haversine_distance(r.grid_lat, r.grid_long, s.LATITUDE, s.LONGITUDE)

\* C2 as stated: the station used for an incident row's distance is the
\* station dispatched to the incident.
C2_DispatchedStationUsed ==
    Finished =>
        \A r \in Rows(input_table) :
            r.INCIDENT_ID # NaN =>
                \E s \in Rows(preprocessed_firestations) :
                    /\ s.FIRE_STATION_ID = r.DISPATCHED_FIRE_STATION_ID
                    /\ UsedStation(r, s)

\* C2 amended: the station used for an incident row's distance is a
\* station whose FIRE_STATION_ID is the row's FIRE_STATION_ID, the station
\* of the service area its mesh cell was cut from; with no such station
\* the row has null station coordinates and a null distance.
C2_ServiceAreaStationUsed ==
    Finished =>
        \A r \in Rows(input_table) :
            r.INCIDENT_ID # NaN =>
                /\ r.FIRE_STATION_ID = square_mesh.rows[r.index_mesh + 1].FIRE_STATION_ID
                /\ IF \E s \in Rows(preprocessed_firestations) :
                          s.FIRE_STATION_ID = r.FIRE_STATION_ID
                   THEN \E s \in Rows(preprocessed_firestations) :
                          /\ s.FIRE_STATION_ID = r.FIRE_STATION_ID
                          /\ UsedStation(r, s)
                   ELSE /\ r.LATITUDE_firestation = NaN
                        /\ r.LONGITUDE_firestation = NaN
                        /\ r.distance_to_fire_station = NaN

\* An incident dispatched from one station lies in the area of another.
C2_Witness ==
    /\ Finished
    /\ \E r \in Rows(input_table) :
          /\ r.INCIDENT_ID # NaN
          /\ r.DISPATCHED_FIRE_STATION_ID # r.FIRE_STATION_ID
          /\ r.distance_to_fire_station # NaN

\* C9: a row whose station identifier is missing or matches no station is
\* in the output with a null distance, and no row is dropped.
C9_UnmatchedStationGivesNullDistance ==
    Finished =>
        /\ Len(input_table.rows) >= Len(merged_incidents_property_assessments_census.rows)
        /\ \A r \in Rows(input_table) :
              (\/ r.FIRE_STATION_ID = NaN
               \/ \A s \in Rows(preprocessed_firestations) :
                      s.FIRE_STATION_ID # r.FIRE_STATION_ID)
              => r.distance_to_fire_station = NaN

NewColumns ==
    {"building_age", "LATITUDE_firestation", "LONGITUDE_firestation",
     "distance_to_fire_station", "is_fire"}

\* C10 as stated: the output has no station coordinate columns and keeps
\* every column the merged table had on entry.
C10_DropsStationCoordinatesOnly ==
    Finished =>
        /\ input_table.columns \cap {"LATITUDE_firestation", "LONGITUDE_firestation"} = {}
        /\ merged_incidents_property_assessments_census.columns \subseteq input_table.columns

\* C10 amended: the cleanup removes the rows' own LATITUDE and LONGITUDE
\* columns and no other: the station coordinate columns stay, with every
\* other column of the merged table and the derived columns.
C10_DropsRowCoordinatesOnly ==
    Finished =>
        /\ input_table.columns =
              (merged_incidents_property_assessments_census.columns \cup NewColumns)
                  \ {"LATITUDE", "LONGITUDE"}
        /\ \A r \in Rows(input_table) : DOMAIN r = input_table.columns

C10_Witness ==
    /\ Finished
    /\ {"LATITUDE", "LONGITUDE"} \subseteq merged_incidents_property_assessments_census.columns
    /\ Len(input_table.rows) > 1

---------------------------------------------------------------------------
(* Claims about the construction year and the building age, under          *)
(* SpecAssessments: runs that differ in their assessments and their year   *)

MaxAssessments == 2

Year1990 == <<"1", "9", "9", "0">>
Year2024 == <<"2", "0", "2", "4">>
Year2025 == <<"2", "0", "2", "5">>
Year9999 == <<"9", "9", "9", "9">>
YearUnknown == <<"i", "n", "c">>

AssessmentSamples ==
    {AssessmentRow(id, annee, WestArea) :
        id \in {7, NaN},
        annee \in {Year1990, Year2024, Year2025, Year9999, YearUnknown, NoText}}

RunYears == {2024, 2025, 2026}

InitAssessments ==
    \E assessments \in Frames(AssessmentColumns, AssessmentSamples, MaxAssessments) :
    \E year \in RunYears :
        Start(<<<< <<"9">>, OneIncident>>>>, TwoStations, TwoAreas, assessments,
              OneCensusUnit, year, 2)

SpecAssessments == InitAssessments /\ [][Next]_vars

\* C6: YEAR_CONSTRUCTION is null exactly when its parsed value is greater
\* than the year of the run, and is the parsed value otherwise.
C6_YearAfterRunYearIsNull ==
    Ran("preprocess_property_assessments") =>
        /\ Len(preprocessed_property_assessments.rows) = Len(property_assessments.rows)
        /\ \A i \in 1..Len(property_assessments.rows) :
              LET parsed == _parse_integers(<<property_assessments.rows[i].ANNEE_CONSTRUCTION>>)[1]
              IN preprocessed_property_assessments.rows[i].YEAR_CONSTRUCTION =
                     IF parsed > current_year THEN NaN ELSE parsed

\* C7: building_age is the year of the run minus YEAR_CONSTRUCTION (null
\* when that is null) on every row with an ASSESSMENT_ID, and null on
\* every row without one.
C7_BuildingAge ==
    Finished =>
        \A r \in Rows(input_table) :
            r.building_age =
                IF r.ASSESSMENT_ID = NaN \/ r.YEAR_CONSTRUCTION = NaN THEN NaN
                ELSE current_year - r.YEAR_CONSTRUCTION

\* An assessment with an age in a later year than 2024, an assessment row
\* without identifier, and a row of another origin.
C7_Witness ==
    /\ Finished
    /\ current_year > YearConstructionLimit
    /\ \E r \in Rows(input_table) :
          r.ASSESSMENT_ID # NaN /\ r.building_age = current_year - 1990
    /\ \E r \in Rows(input_table) :
          r.ASSESSMENT_ID = NaN /\ r.YEAR_CONSTRUCTION # NaN /\ r.building_age = NaN
    /\ \E r \in Rows(input_table) : r.INCIDENT_ID # NaN /\ r.building_age = NaN

---------------------------------------------------------------------------
(* Claims about combine_incidents and the preprocessing, under SpecIngest: *)
(* runs that differ in the raw incidents, in their partitions, and in the  *)
(* dates of the stations                                                   *)

\* Every combination of category, latitude and year a filter looks at, and
\* rows with no longitude, with a timestamp or a number of units that does
\* not parse, and with no timestamp.
IngestSamples ==
    {IncidentRow(1, groupe, lat, 1, when, <<"3">>) :
        groupe \in {"INCENDIE", "NOUVEAU", NA}, lat \in {1, 0, NaN},
        when \in {When2023, When2024}}
    \cup {IncidentRow(1, groupe, 1, NaN, When2023, <<"3">>) : groupe \in {"INCENDIE", "NOUVEAU"}}
    \cup {IncidentRow(1, groupe, 1, 1, WhenUnparseable, <<"3">>) : groupe \in {"INCENDIE", "NOUVEAU"}}
    \cup {IncidentRow(1, "SANS FEU", 1, 1, NoText, <<"x">>)}

InitIngestRows ==
    \E rws \in UNION {[1..k -> IngestSamples] : k \in 0..MaxIncidents} :
    \E partitioned \in Partitionings(rws, OnePartition) :
        Start(partitioned, TwoStations, TwoAreas, OneAssessment, OneCensusUnit, 2026, 2)

\* Partition keys "9" and "10", in either dict order: Python sorts "10" first.
KeyOrders == {<<<<"9">>>>, <<<<"9">>, <<"1", "0">>>>, <<<<"1", "0">>, <<"9">>>>}

PartitionSamples ==
    {IncidentRow(caserne, groupe, 1, lon, When2023, <<"3">>) :
        caserne \in {1, 2}, groupe \in {"INCENDIE", "NOUVEAU"}, lon \in {1, 2, 5}}

InitPartitions ==
    \E rws \in UNION {[1..k -> PartitionSamples] : k \in 0..MaxIncidents} :
    \E partitioned \in Partitionings(rws, KeyOrders) :
        Start(partitioned, TwoStations, TwoAreas, OneAssessment, OneCensusUnit, 2026, 2)

StationDateSamples ==
    {FirestationRow(1, 1, 0, debut, fin) :
        debut \in {Day2015, WhenUnparseable}, fin \in {NoText, Day2015, WhenUnparseable}}

InitStationDates ==
    \E stations \in Frames(FirestationColumns, StationDateSamples, MaxStations) :
        Start(<<<< <<"9">>, OneIncident>>>>, stations, TwoAreas, OneAssessment,
              OneCensusUnit, 2026, 2)

SpecIngest == (InitIngestRows \/ InitPartitions \/ InitStationDates) /\ [][Next]_vars

RECURSIVE Sum(_)
Sum(x) == IF x = << >> THEN 0 ELSE Head(x) + Sum(Tail(x))

\* The number of rows in the partitions whose keys Python sorts before key.
RowsBefore(key) ==
    Sum([p \in 1..Len(partitioned_input) |->
            IF KeyLess(partitioned_input[p][1], key)
            THEN Len(partitioned_input[p][2].rows) ELSE 0])

\* The combined row an INCIDENT_ID was assigned to, as a preprocessed row.
SameIncident(r, c) ==
    /\ r.INCIDENT_ID = c.INCIDENT_ID
    /\ r.LATITUDE = c.LATITUDE
    /\ r.LONGITUDE = c.LONGITUDE
    /\ r.DISPATCHED_FIRE_STATION_ID = c.CASERNE
    /\ r.INCIDENT_CATEGORY = _rename_incidents(<<c.DESCRIPTION_GROUPE>>, map_of_incidents_values)[1]

\* x's rows carry distinct INCIDENT_IDs, each the one its row was given
\* in combined_incidents.
KeepsIncidentIds(x) ==
    /\ \A i, j \in 1..Len(x.rows) : i # j => x.rows[i].INCIDENT_ID # x.rows[j].INCIDENT_ID
    /\ \A r \in Rows(x) :
          /\ r.INCIDENT_ID \in 0..(Len(combined_incidents.rows) - 1)
          /\ SameIncident(r, combined_incidents.rows[r.INCIDENT_ID + 1])

\* C4: combine_incidents lays the partitions out in sorted key order and
\* numbers the rows by position; preprocess_incidents and
\* spatial_join_incidents keep each row's INCIDENT_ID and never repeat one.
C4_IncidentIdIsPositionAndKept ==
    /\ Ran("combine_incidents") =>
          /\ \A p \in 1..Len(partitioned_input) :
                \A k \in 1..Len(partitioned_input[p][2].rows) :
                    LET c == combined_incidents.rows[RowsBefore(partitioned_input[p][1]) + k]
                    IN /\ [col \in IncidentColumns |-> c[col]] = partitioned_input[p][2].rows[k]
                       /\ c.INCIDENT_ID = RowsBefore(partitioned_input[p][1]) + k - 1
          /\ \A i \in 1..Len(combined_incidents.rows) :
                combined_incidents.rows[i].INCIDENT_ID = i - 1
    /\ Ran("preprocess_incidents") => KeepsIncidentIds(preprocessed_incidents)
    /\ Ran("spatial_join_incidents") => KeepsIncidentIds(spatial_joined_incidents)

\* Two partitions whose dict order is not their sorted order, both with a
\* row that reaches the joined table; one lies on the line between cells.
C4_Witness ==
    /\ Finished
    /\ Len(partitioned_input) = 2
    /\ KeyLess(partitioned_input[2][1], partitioned_input[1][1])
    /\ Len(spatial_joined_incidents.rows) = 2
    /\ \E r \in Rows(spatial_joined_incidents) : r.LONGITUDE = 2
    /\ spatial_joined_incidents.rows[1].DISPATCHED_FIRE_STATION_ID
           # spatial_joined_incidents.rows[2].DISPATCHED_FIRE_STATION_ID

\* A combined row that passes every filter of preprocess_incidents.
PassesFilters(c) ==
    /\ c.DESCRIPTION_GROUPE # "NOUVEAU"
    /\ c.LATITUDE # 0
    /\ c.LATITUDE # NaN /\ c.LONGITUDE # NaN /\ c.DESCRIPTION_GROUPE # NA
    /\ to_datetime(c.CREATION_DATE_TIME).year # 2024

\* C5: the rows preprocess_incidents returns are exactly the input rows
\* that match none of: category NOUVEAU, latitude 0, a null latitude,
\* longitude or category, year 2024.
C5_ExactlyTheRowsPassingAllFilters ==
    (Ran("preprocess_incidents")) =>
        /\ KeepsIncidentIds(preprocessed_incidents)
        /\ {r.INCIDENT_ID : r \in Rows(preprocessed_incidents)}
              = {c.INCIDENT_ID : c \in {c \in Rows(combined_incidents) : PassesFilters(c)}}

\* A row that matches one forbidden pair only is dropped, another is kept.
C5_Witness ==
    /\ Ran("preprocess_incidents")
    /\ Len(preprocessed_incidents.rows) = 1
    /\ \E c \in Rows(combined_incidents) :
          c.DESCRIPTION_GROUPE = "NOUVEAU" /\ c.LATITUDE = 1 /\ c.LONGITUDE = 1
          /\ c.CREATION_DATE_TIME = When2023

\* C8: no preprocessing step raises on a bad value of a row.
C8_PreprocessingNeverRaises == pc # "raised"

---------------------------------------------------------------------------
(* Claims about the spatial joins, under SpecJoin: runs that differ in the *)
(* points of one table and in the mesh                                     *)

MaxCensus == 2

TallArea == <<0, 0, 4, 4>>
MiddleParcel == <<1, 0, 3, 2>>
CornerParcel == <<1, 1, 3, 3>>
FarParcel == <<4, 0, 6, 2>>

\* Two areas side by side, or one area of two by two squares.
JoinAreas == {TwoAreas, DataFrame(AreaColumns, <<AreaRow(1, TallArea)>>)}

SquareSizes == {2, 4}

\* Points inside a cell, on the line between cells, on a corner of four
\* cells, and outside the mesh.
JoinIncidents ==
    {IncidentRow(1, "INCENDIE", lat, lon, When2023, <<"3">>) :
        lat \in {1, 2}, lon \in {1, 2, 5}}

JoinAssessments ==
    {AssessmentRow(id, Year1990, g) :
        id \in {7, 8, NaN}, g \in {WestArea, MiddleParcel, CornerParcel, FarParcel}}

JoinCensus ==
    {CensusRow(id, 5, 100, g) :
        id \in {"A", "B", NA}, g \in {WestArea, MiddleParcel, CornerParcel, FarParcel}}

InitJoinIncidents ==
    \E rws \in UNION {[1..k -> JoinIncidents] : k \in 0..MaxIncidents} :
    \E partitioned \in Partitionings(rws, OnePartition) :
    \E areas \in JoinAreas : \E size \in SquareSizes :
        Start(partitioned, TwoStations, areas, OneAssessment, OneCensusUnit, 2026, size)

InitJoinAssessments ==
    \E assessments \in Frames(AssessmentColumns, JoinAssessments, MaxAssessments) :
    \E areas \in JoinAreas : \E size \in SquareSizes :
        Start(<<<< <<"9">>, OneIncident>>>>, TwoStations, areas, assessments,
              OneCensusUnit, 2026, size)

InitJoinCensus ==
    \E units \in Frames(CensusColumns, JoinCensus, MaxCensus) :
    \E areas \in JoinAreas : \E size \in SquareSizes :
        Start(<<<< <<"9">>, OneIncident>>>>, TwoStations, areas, OneAssessment,
              units, 2026, size)

SpecJoin == (InitJoinIncidents \/ InitJoinAssessments \/ InitJoinCensus) /\ [][Next]_vars

\* The mesh cells the point of row p intersects, by index.
CellsOf(p) ==
    {j \in 1..Len(square_mesh.rows) :
        Intersects(<<p.LONGITUDE, p.LATITUDE>>, square_mesh.rows[j].geometry)}

\* Row o is the match of point row p with mesh cell j.
IsMatch(o, p, j) ==
    /\ \A c \in DOMAIN p : o[c] = p[c]
    /\ o.index_mesh = j - 1
    /\ o.grid_lat = square_mesh.rows[j].grid_lat
    /\ o.grid_long = square_mesh.rows[j].grid_long
    /\ o.FIRE_STATION_ID = square_mesh.rows[j].FIRE_STATION_ID

\* Every key of points with a point in some cell is on exactly one row of
\* joined: the match of the first such point with its first cell.
FirstMatchKept(points, joined, key) ==
    \A k \in {points.rows[i][key] : i \in {i \in 1..Len(points.rows) : CellsOf(points.rows[i]) # {}}} :
        LET first == Min({i \in 1..Len(points.rows) :
                             points.rows[i][key] = k /\ CellsOf(points.rows[i]) # {}})
            cell == Min(CellsOf(points.rows[first]))
            at == {i \in 1..Len(joined.rows) : joined.rows[i][key] = k}
        IN /\ Cardinality(at) = 1
           /\ \A i \in at : IsMatch(joined.rows[i], points.rows[first], cell)

\* C3: in each spatial join, every record key with a point in some mesh
\* cell is on exactly one output row, the first match in join order.
C3_OneRowPerKeyTheFirstMatch ==
    /\ Ran("spatial_join_incidents") =>
          FirstMatchKept(preprocessed_incidents, spatial_joined_incidents, "INCIDENT_ID")
    /\ Ran("spatial_join_property_assessments") =>
          FirstMatchKept(preprocessed_property_assessments,
                         spatial_joined_property_assessments, "ASSESSMENT_ID")
    /\ Ran("spatial_join_census") =>
          FirstMatchKept(preprocessed_census, spatial_joined_census, "DGUID")

\* A point with more than one match, in a join with a key on two points.
HasLaterMatches(points, key) ==
    /\ \E i \in 1..Len(points.rows) : Cardinality(CellsOf(points.rows[i])) > 1
    /\ \E i, j \in 1..Len(points.rows) :
          /\ i < j /\ points.rows[i][key] = points.rows[j][key]
          /\ CellsOf(points.rows[i]) # {} /\ CellsOf(points.rows[j]) # {}
          /\ CellsOf(points.rows[i]) # CellsOf(points.rows[j])

C3_Witness ==
    /\ Finished
    /\ \/ HasLaterMatches(preprocessed_property_assessments, "ASSESSMENT_ID")
       \/ HasLaterMatches(preprocessed_census, "DGUID")

\* Point row p lies strictly inside mesh cell j: not on its boundary.
StrictlyInside(p, j) ==
    LET g == square_mesh.rows[j].geometry
    IN /\ p.LONGITUDE # NaN /\ p.LATITUDE # NaN
       /\ g[1] < p.LONGITUDE /\ p.LONGITUDE < g[3]
       /\ g[2] < p.LATITUDE /\ p.LATITUDE < g[4]

\* The rows of joined that carry point row p.
RowsOf(p, joined) ==
    {k \in 1..Len(joined.rows) : \A c \in DOMAIN p : joined.rows[k][c] = p[c]}

\* Every point strictly inside exactly one cell is on exactly one row of
\* joined, with the centroid of that cell; a point in no cell is on none.
JoinComplete(points, joined) ==
    \A i \in 1..Len(points.rows) :
        LET p == points.rows[i]
        IN /\ \A j \in 1..Len(square_mesh.rows) :
                (CellsOf(p) = {j} /\ StrictlyInside(p, j)) =>
                    /\ Cardinality(RowsOf(p, joined)) = 1
                    /\ \A k \in RowsOf(p, joined) :
                          /\ joined.rows[k].grid_long = CentroidX(square_mesh.rows[j].geometry)
                          /\ joined.rows[k].grid_lat = CentroidY(square_mesh.rows[j].geometry)
           /\ CellsOf(p) = {} => RowsOf(p, joined) = {}

\* C11: in each spatial join, every input point strictly inside exactly one
\* mesh cell appears exactly once in the output, with the centroid
\* coordinates of that cell, and a point that intersects no cell does not
\* appear in the output.
C11_JoinCompleteness ==
    /\ Ran("spatial_join_incidents") =>
          JoinComplete(preprocessed_incidents, spatial_joined_incidents)
    /\ Ran("spatial_join_property_assessments") =>
          JoinComplete(preprocessed_property_assessments,
                       spatial_joined_property_assessments)
    /\ Ran("spatial_join_census") =>
          JoinComplete(preprocessed_census, spatial_joined_census)

---------------------------------------------------------------------------
(* A claim about the rows of create_input_table, under Spec: the runs that *)
(* differ in their stations include a station on two rows                  *)

\* The number of rows of x with value v in column key.
Occurrences(x, key, v) ==
    Cardinality({i \in 1..Len(x.rows) : x.rows[i][key] = v})

\* C12: create_input_table returns exactly one row per row of the merged
\* table, also when a FIRE_STATION_ID is on more than one row of the
\* firestations table: the number of rows is unchanged and no INCIDENT_ID,
\* ASSESSMENT_ID or DGUID is on more rows of input_table than of the merged
\* table.
C12_OneOutputRowPerInputRow ==
    Finished =>
        /\ Len(input_table.rows) = Len(merged_incidents_property_assessments_census.rows)
        /\ \A key \in {"INCIDENT_ID", "ASSESSMENT_ID", "DGUID"} :
           \A r \in Rows(merged_incidents_property_assessments_census) :
              ~IsNull(key, r[key]) =>
                  Occurrences(input_table, key, r[key])
                      <= Occurrences(merged_incidents_property_assessments_census,
                                     key, r[key])

====
